---- MODULE Spec2Model ----
(***************************************************************************)
(* State-machine model of vectorbt.records.base: the Records class (a      *)
(* structured row array, an array wrapper with an optional column          *)
(* grouping, a lazily cached column index) and its operations regroup,     *)
(* col_index, filter_by_mask, map, map_field, map_array, count and the     *)
(* pandas-style column selection (records_indexing_func).                  *)
(*                                                                         *)
(* The caller holds two references: records, the instance under study,    *)
(* and result, the derived instance a call on records returned.  Every     *)
(* public call is one action on records; the column index and a selection  *)
(* are also taken on result (a derived instance's own index, a repeated    *)
(* selection).  The caller keeps result while it calls on it and drops it  *)
(* at its next call on records.  The return value or raised exception of   *)
(* the call is recorded in ret.                                            *)
(***************************************************************************)
EXTENDS Integers, Sequences, FiniteSets, TLC

\* records: the instance under study
\* result:  the derived instance the caller holds, if any (None or Some)
\* origin:  the labels of the selection that made result, if a selection made
\*          it (history, not program state)
\* ret:     the last call: its receiver, arguments and outcome
VARIABLES records, result, origin, ret

vars == <<records, result, origin, ret>>

\* ------------------------------------------------------------------ bounds
MaxRows == 3
MaxCols == 3

\* ------------------------------------------------------- Python-ish basics
\* An optional value: None is the empty set, Some(x) the singleton.
None == {}
Some(x) == {x}
The(o) == CHOOSE x \in o : TRUE

Range(f) == {f[i] : i \in DOMAIN f}

Min(S) == CHOOSE x \in S : \A y \in S : x <= y

RECURSIVE SortedSeq(_)
SortedSeq(S) == IF S = {} THEN <<>> ELSE <<Min(S)>> \o SortedSeq(S \ {Min(S)})

RECURSIVE Flatten(_)
Flatten(ss) == IF ss = <<>> THEN <<>> ELSE Head(ss) \o Flatten(Tail(ss))

\* Column labels of the example wrapper and the group labels of the example.
ColumnLabels == <<"a", "b", "c", "d", "e">>
GroupLabels == <<"first", "second">>

\* --------------------------------------------------------- structured array
\* A structured array: its dtype's field names and its rows (0-based in the
\* source; position i of the source is element i+1 here).
FullNames == {"col", "idx", "some_field"}
NoIdxNames == {"col", "some_field"}

Field(records_arr, name) == [i \in DOMAIN records_arr.data |-> records_arr.data[i][name]]

\* numpy boolean-mask indexing records_arr[mask], mask of the array's length.
BoolIndex(records_arr, mask) ==
    [records_arr EXCEPT !.data =
        Flatten([i \in DOMAIN records_arr.data |->
                    IF mask[i] THEN <<records_arr.data[i]>> ELSE <<>>])]

\* ------------------------------------------------------------ ArrayWrapper
\* is_grouping_changed: a group_by of None asks for no change.
is_grouping_changed(wrapper, group_by) ==
    group_by # None /\ group_by # wrapper.group_by

\* check_group_by: a grouping names one group per column.
check_group_by(wrapper, group_by) ==
    Len(The(group_by)) = Len(wrapper.columns)

\* wrapper.copy(group_by=...)
wrapper_copy(wrapper, group_by) == [wrapper EXCEPT !.group_by = group_by]

\* The labels a selection is made on: the groups of a grouped wrapper, else
\* the columns.
Selectable(wrapper) ==
    IF wrapper.group_by = None THEN Range(wrapper.columns)
    ELSE Range(The(wrapper.group_by))

\* indexing_on_wrapper_meta(wrapper, pd_indexing_func, column_only_select=True)
\* for a selection of the labels in L: the narrowed wrapper and the selected
\* column positions (0-based, ascending).
indexing_on_wrapper_meta(wrapper, L) ==
    LET n == Len(wrapper.columns)
        hit(p) == IF wrapper.group_by = None THEN wrapper.columns[p + 1] \in L
                  ELSE The(wrapper.group_by)[p + 1] \in L
        col_idxs == SortedSeq({p \in 0..(n - 1) : hit(p)})
        m == Len(col_idxs)
    IN [new_wrapper |->
            [columns |-> [k \in 1..m |-> wrapper.columns[col_idxs[k] + 1]],
             group_by |-> IF wrapper.group_by = None THEN None
                          ELSE Some([k \in 1..m |-> The(wrapper.group_by)[col_idxs[k] + 1]])],
        col_idxs |-> col_idxs]

\* ---------------------------------------------------------------- nb kernels
\* record_col_index_nb(records, n_cols): one pass over the rows, adding each
\* row position (0-based) to the entry of its column.
RECURSIVE ScanCols(_, _, _)
ScanCols(data, r, index) ==
    IF r = Len(data) THEN index
    ELSE ScanCols(data, r + 1,
            IF data[r + 1].col \in DOMAIN index
            THEN [index EXCEPT ![data[r + 1].col] = @ \cup {r}]
            ELSE index)

record_col_index_nb(records_arr, n_cols) ==
    ScanCols(records_arr.data, 0, [c \in 0..(n_cols - 1) |-> {}])

\* select_record_cols_nb(records, col_index, new_cols): for each selected
\* column, in the order of new_cols, its rows in index order with col set to
\* the column's position in new_cols.
select_record_cols_nb(records_arr, index, new_cols) ==
    [records_arr EXCEPT !.data =
        Flatten([k \in DOMAIN new_cols |->
            LET rows == SortedSeq(index[new_cols[k]])
            IN [j \in DOMAIN rows |->
                    [records_arr.data[rows[j] + 1] EXCEPT !.col = k - 1]]])]

\* The user kernels: power_map_nb(record, pow) of the module docstring, and a
\* kernel that raises on the rows of column 0.
Kernels == {"power_map_nb", "inv_col_nb"}
KernelRaises(kernel, row) == kernel = "inv_col_nb" /\ row.col = 0
KernelValue(kernel, row, arg) ==
    IF kernel = "power_map_nb" THEN row.some_field ^ arg
    ELSE 60 \div row.col

\* map_records_nb(records, map_func_nb, *args)
map_records_nb(records_arr, kernel, arg) ==
    [i \in DOMAIN records_arr.data |-> KernelValue(kernel, records_arr.data[i], arg)]

\* ------------------------------------------------------------------ Records
\* Records.__init__: the instance, or the failed check.  col_index is the
\* slot of the cached property, empty at construction; index_builds counts the
\* calls of record_col_index_nb made for the instance (history only).
Records_init(wrapper, records_arr, idx_field) ==
    IF "col" \notin records_arr.dtype THEN [ok |-> FALSE, error |-> "SchemaError"]
    ELSE IF idx_field # None /\ The(idx_field) \notin records_arr.dtype
    THEN [ok |-> FALSE, error |-> "SchemaError"]
    ELSE [ok |-> TRUE,
          obj |-> [config_idx_field |-> idx_field,
                   wrapper |-> wrapper,
                   records_arr |-> records_arr,
                   idx_field |-> IF idx_field # None THEN idx_field
                                 ELSE IF "idx" \in records_arr.dtype THEN Some("idx")
                                 ELSE None,
                   col_index |-> None,
                   index_builds |-> 0]]

\* Configured.copy(wrapper=..., records_arr=...): a new instance made by
\* __init__ from the stored config with the given arguments replaced.
copy(self, wrapper, records_arr) ==
    Records_init(wrapper, records_arr, self.config_idx_field).obj

\* MappedArray(wrapper, mapped_arr, col_arr, idx_arr=..., value_map=...): the
\* three sequences have one length.
MappedArray(wrapper, mapped_arr, col_arr, idx_arr, value_map) ==
    IF Len(mapped_arr) # Len(col_arr)
       \/ (idx_arr # None /\ Len(The(idx_arr)) # Len(mapped_arr))
    THEN [ok |-> FALSE, error |-> "ShapeError"]
    ELSE [ok |-> TRUE,
          obj |-> [wrapper |-> wrapper, mapped_arr |-> mapped_arr, col_arr |-> col_arr,
                   idx_arr |-> idx_arr, value_map |-> value_map]]

\* MappedArray.count(default_val=0., group_by=...): the number of values per
\* column, or per group under a grouping.
MappedArray_count(mapped, group_by) ==
    LET w == mapped.wrapper
        g == IF is_grouping_changed(w, group_by) THEN group_by ELSE w.group_by
        key(p) == IF g = None THEN w.columns[p + 1] ELSE The(g)[p + 1]
        keys == {key(p) : p \in 0..(Len(w.columns) - 1)}
    IN [k \in keys |->
            Cardinality({i \in DOMAIN mapped.col_arr :
                            /\ mapped.col_arr[i] \in 0..(Len(w.columns) - 1)
                            /\ key(mapped.col_arr[i]) = k})]

\* ------------------------------------------------------- outcomes of a call
\* What a method call leaves behind: the receiver after the call, the new
\* instance if it built one, and what it returned or raised.
Raise(self, error) == [kind |-> "raise", self |-> self, new |-> None, value |-> error]
ReturnSelf(self) == [kind |-> "self", self |-> self, new |-> None, value |-> None]
ReturnNew(self, obj) == [kind |-> "new", self |-> self, new |-> Some(obj), value |-> None]
ReturnValue(self, kind, value) == [kind |-> kind, self |-> self, new |-> None, value |-> value]

\* ------------------------------------------------------------ Records methods
\* col_index taking one column too few.
col_index_short(self) ==
    IF self.col_index # None
    THEN [self |-> self, value |-> The(self.col_index)]
    ELSE LET index == record_col_index_nb(self.records_arr, Len(self.wrapper.columns) - 1)
         IN [self |-> [self EXCEPT !.col_index = Some(index),
                                   !.index_builds = @ + 1],
             value |-> index]

\* col_index without the cache: the index is built again at every access.
col_index_uncached(self) ==
    LET index == record_col_index_nb(self.records_arr, Len(self.wrapper.columns))
    IN [self |-> [self EXCEPT !.col_index = Some(index),
                              !.index_builds = @ + 1],
        value |-> index]

\* @cached_property col_index: computed on the first access and kept in the
\* instance, returned from there afterwards.
col_index(self) ==
    IF self.col_index # None
    THEN [self |-> self, value |-> The(self.col_index)]
    ELSE LET index == record_col_index_nb(self.records_arr, Len(self.wrapper.columns))
         IN [self |-> [self EXCEPT !.col_index = Some(index),
                                   !.index_builds = @ + 1],
             value |-> index]

\* regroup without check_group_by.
regroup_unchecked(self, group_by) ==
    IF is_grouping_changed(self.wrapper, group_by)
    THEN ReturnNew(self, copy(self, wrapper_copy(self.wrapper, group_by),
                              self.records_arr))
    ELSE ReturnSelf(self)

\* Records.regroup(group_by)
regroup(self, group_by) ==
    IF is_grouping_changed(self.wrapper, group_by)
    THEN IF ~check_group_by(self.wrapper, group_by)
         THEN Raise(self, "GroupingError")
         ELSE ReturnNew(self, copy(self, wrapper_copy(self.wrapper, group_by),
                                   self.records_arr))
    ELSE ReturnSelf(self)

\* filter_by_mask keeping the rows the mask rejects.
filter_by_mask_negated(self, mask, group_by) ==
    IF is_grouping_changed(self.wrapper, group_by)
       /\ ~check_group_by(self.wrapper, group_by)
    THEN Raise(self, "GroupingError")
    ELSE LET wrapper == IF is_grouping_changed(self.wrapper, group_by)
                        THEN wrapper_copy(self.wrapper, group_by)
                        ELSE self.wrapper
         IN IF Len(mask) # Len(self.records_arr.data)
            THEN Raise(self, "ShapeError")
            ELSE ReturnNew(self, copy(self, wrapper,
                     BoolIndex(self.records_arr, [i \in DOMAIN mask |-> ~mask[i]])))

\* filter_by_mask filtering the receiver's own array in place.
filter_by_mask_inplace(self, mask, group_by) ==
    IF is_grouping_changed(self.wrapper, group_by)
       /\ ~check_group_by(self.wrapper, group_by)
    THEN Raise(self, "GroupingError")
    ELSE IF Len(mask) # Len(self.records_arr.data)
    THEN Raise(self, "ShapeError")
    ELSE ReturnSelf([self EXCEPT !.records_arr = BoolIndex(self.records_arr, mask)])

\* filter_by_mask taking a mask of any length: the rows the mask covers and
\* accepts.
filter_by_mask_truncating(self, mask, group_by) ==
    IF is_grouping_changed(self.wrapper, group_by)
       /\ ~check_group_by(self.wrapper, group_by)
    THEN Raise(self, "GroupingError")
    ELSE LET wrapper == IF is_grouping_changed(self.wrapper, group_by)
                        THEN wrapper_copy(self.wrapper, group_by)
                        ELSE self.wrapper
         IN ReturnNew(self, copy(self, wrapper,
                BoolIndex(self.records_arr,
                          [i \in DOMAIN self.records_arr.data |->
                              i \in DOMAIN mask /\ mask[i]])))

\* Records.filter_by_mask(mask, group_by=None)
filter_by_mask(self, mask, group_by) ==
    IF is_grouping_changed(self.wrapper, group_by)
       /\ ~check_group_by(self.wrapper, group_by)
    THEN Raise(self, "GroupingError")
    ELSE LET wrapper == IF is_grouping_changed(self.wrapper, group_by)
                        THEN wrapper_copy(self.wrapper, group_by)
                        ELSE self.wrapper
         IN \* records_arr[mask]: numpy refuses a boolean index of another length
            IF Len(mask) # Len(self.records_arr.data)
            THEN Raise(self, "ShapeError")
            ELSE ReturnNew(self, copy(self, wrapper, BoolIndex(self.records_arr, mask)))

\* The idx_arr of a mapped array: the caller's, else the index field's values.
resolve_idx_arr(self, idx_arr) ==
    IF idx_arr = None
    THEN IF self.idx_field # None
         THEN Some(Field(self.records_arr, The(self.idx_field)))
         ELSE None
    ELSE idx_arr

\* The tail shared by map, map_field and map_array: the wrapper under the
\* requested grouping, then the MappedArray.
to_mapped(self, mapped_arr, idx_arr, value_map, group_by) ==
    IF is_grouping_changed(self.wrapper, group_by)
       /\ ~check_group_by(self.wrapper, group_by)
    THEN Raise(self, "GroupingError")
    ELSE LET wrapper == IF is_grouping_changed(self.wrapper, group_by)
                        THEN wrapper_copy(self.wrapper, group_by)
                        ELSE self.wrapper
             m == MappedArray(wrapper, mapped_arr, Field(self.records_arr, "col"),
                              idx_arr, value_map)
         IN IF m.ok THEN ReturnValue(self, "mapped", m.obj) ELSE Raise(self, m.error)

\* map dropping the caller's idx_arr.
map_ignores_idx_arr(self, kernel, arg, idx_arr, value_map, group_by) ==
    IF \E i \in DOMAIN self.records_arr.data : KernelRaises(kernel, self.records_arr.data[i])
    THEN Raise(self, "KernelError")
    ELSE to_mapped(self, map_records_nb(self.records_arr, kernel, arg),
                   resolve_idx_arr(self, None), value_map, group_by)

\* Records.map(map_func_nb, *args, idx_arr=None, value_map=None, group_by=None)
map(self, kernel, arg, idx_arr, value_map, group_by) ==
    IF \E i \in DOMAIN self.records_arr.data : KernelRaises(kernel, self.records_arr.data[i])
    THEN Raise(self, "KernelError")
    ELSE to_mapped(self, map_records_nb(self.records_arr, kernel, arg),
                   resolve_idx_arr(self, idx_arr), value_map, group_by)

\* Records.map_field(field, idx_arr=None, value_map=None, group_by=None)
map_field(self, field, idx_arr, value_map, group_by) ==
    IF is_grouping_changed(self.wrapper, group_by)
       /\ ~check_group_by(self.wrapper, group_by)
    THEN Raise(self, "GroupingError")
    ELSE IF field \notin self.records_arr.dtype
    THEN Raise(self, "SchemaError")
    ELSE to_mapped(self, Field(self.records_arr, field),
                   resolve_idx_arr(self, idx_arr), value_map, group_by)

\* map_array without assert_shape_equal.
map_array_unchecked(self, a, idx_arr, value_map, group_by) ==
    to_mapped(self, a, resolve_idx_arr(self, idx_arr), value_map, group_by)

\* Records.map_array(a, idx_arr=None, value_map=None, group_by=None)
map_array(self, a, idx_arr, value_map, group_by) ==
    IF Len(a) # Len(self.records_arr.data)
    THEN Raise(self, "ShapeError")
    ELSE to_mapped(self, a, resolve_idx_arr(self, idx_arr), value_map, group_by)

\* Records.count(**kwargs): map_field('col').count(default_val=0., **kwargs).
\* The value is a function of the instance's fields and the arguments alone,
\* so the memo that @cached_method keeps beside the instance returns the same
\* value and is left out.
count(self, group_by) ==
    LET m == map_field(self, "col", None, None, None)
    IN IF m.kind = "raise" THEN m
       ELSE IF is_grouping_changed(m.value.wrapper, group_by)
               /\ ~check_group_by(m.value.wrapper, group_by)
       THEN Raise(self, "GroupingError")
       ELSE ReturnValue(self, "value", MappedArray_count(m.value, group_by))

\* indexing_on_records_meta(obj, pd_indexing_func), the selection being the
\* labels L; reads obj.col_index.
indexing_on_records_meta(self, L) ==
    LET meta == indexing_on_wrapper_meta(self.wrapper, L)
        ci == col_index(self)
    IN [self |-> ci.self,
        new_wrapper |-> meta.new_wrapper,
        new_records_arr |-> select_record_cols_nb(self.records_arr, ci.value, meta.col_idxs),
        col_idxs |-> meta.col_idxs]

\* records_indexing_func copying without records_arr=new_records_arr.
records_indexing_func_keeps_rows(self, L) ==
    LET meta == indexing_on_records_meta(self, L)
    IN ReturnNew(meta.self, copy(self, meta.new_wrapper, self.records_arr))

\* records_indexing_func copying without wrapper=new_wrapper.
records_indexing_func_keeps_wrapper(self, L) ==
    LET meta == indexing_on_records_meta(self, L)
    IN ReturnNew(meta.self, copy(self, self.wrapper, meta.new_records_arr))

\* records_indexing_func(obj, pd_indexing_func)
records_indexing_func(self, L) ==
    LET meta == indexing_on_records_meta(self, L)
    IN ReturnNew(meta.self, copy(self, meta.new_wrapper, meta.new_records_arr))

\* ----------------------------------------------------------------- inputs
\* The group_by arguments tried on a wrapper: none, the first two columns
\* together and the others together (the docstring's first/first/second), and
\* a grouping with one label too many.
DocGrouping(n) == [i \in 1..n |-> IF i <= 2 THEN GroupLabels[1] ELSE GroupLabels[2]]

GroupByArgs(wrapper) ==
    LET n == Len(wrapper.columns)
    IN {None, Some(DocGrouping(n)), Some([i \in 1..(n + 1) |-> GroupLabels[1]])}

\* Masks: every mask of the row count's length, and an all-true mask of every
\* other length up to one more.
Masks(self) ==
    LET n == Len(self.records_arr.data)
    IN [1..n -> BOOLEAN] \cup {[i \in 1..m |-> TRUE] : m \in 0..(n + 1)}

\* Arrays handed to map_array: empty, one short, of the row count's length,
\* one long.
Arrays(self) ==
    LET n == Len(self.records_arr.data)
    IN {[i \in 1..m |-> 100 + i] : m \in {0, n - 1, n, n + 1} \cap Nat}

\* idx_arr arguments: none, one of the row count's length, one longer by one.
IdxArrs(self) ==
    LET n == Len(self.records_arr.data)
    IN {None, Some([i \in 1..n |-> 200 + i]), Some([i \in 1..(n + 1) |-> 200 + i])}

\* The value_map handed through to the mapped array.
ValueMaps == {Some("value_map")}

Selections(self) == SUBSET Selectable(self.wrapper) \ {{}}

\* ------------------------------------------------------------ the machine
InitRow(cols, names, i) ==
    [f \in names |->
        CASE f = "col" -> cols[i]
          [] f = "idx" -> Cardinality({j \in 1..(i - 1) : cols[j] = cols[i]})
          [] OTHER -> 9 + i]

\* The dtype and idx_field argument of the instance under study.
Schemas ==
    {[names |-> FullNames, idx_field |-> None],
     [names |-> NoIdxNames, idx_field |-> None],
     [names |-> FullNames, idx_field |-> Some("some_field")]}

Construct(cols, schema, group_by) ==
    LET wrapper == [columns |-> SubSeq(ColumnLabels, 1, MaxCols), group_by |-> group_by]
        records_arr == [dtype |-> schema.names,
                        data |-> [i \in DOMAIN cols |-> InitRow(cols, schema.names, i)]]
    IN /\ records = Records_init(wrapper, records_arr, schema.idx_field).obj
       /\ result = None
       /\ origin = None
       /\ ret = [op |-> "init", receiver |-> "records", self |-> None, made_by |-> None,
                 args |-> <<>>, kind |-> "new", value |-> None]

\* Every row array: any column id on any row, sorted or scattered.
ColSeqs == UNION {[1..n -> 0..(MaxCols - 1)] : n \in 0..MaxRows}

InitAny ==
    \E cols \in ColSeqs, schema \in Schemas, group_by \in {None, Some(DocGrouping(MaxCols))} :
        Construct(cols, schema, group_by)

\* The docstring's table cut to n rows: the rows spread evenly over the
\* columns and sorted by column; and the same rows in reverse order.
ExampleCols(n) == [i \in 1..n |-> ((i - 1) * MaxCols) \div n]
Reverse(s) == [i \in 1..Len(s) |-> s[Len(s) + 1 - i]]

Init ==
    \E n \in 0..MaxRows, schema \in Schemas, group_by \in {None, Some(DocGrouping(MaxCols))} :
        \E cols \in {ExampleCols(n), Reverse(ExampleCols(n))} :
            Construct(cols, schema, group_by)

\* The instances the caller holds.
Held == {"records"} \cup (IF result = None THEN {} ELSE {"result"})
Deref(r) == IF r = "records" THEN records ELSE The(result)

\* A call of op on receiver r with outcome out: the receiver as the call
\* left it, the new instance (if any) bound to result.  ret keeps the
\* receiver as it was before the call and, for result, the selection that
\* had made it.
Call(op, r, args, out) ==
    /\ records' = IF r = "records" THEN out.self ELSE records
    /\ result' = IF out.new # None THEN out.new
                 ELSE IF r = "result" THEN Some(out.self) ELSE None
    /\ origin' = IF out.new # None
                 THEN IF op = "getitem" THEN Some(args.labels) ELSE None
                 ELSE IF r = "result" THEN origin ELSE None
    /\ ret' = [op |-> op, receiver |-> r, self |-> Some(Deref(r)),
               made_by |-> IF r = "result" THEN origin ELSE None,
               args |-> args, kind |-> out.kind, value |-> out.value]

\* The calls.  Those that are also made on result take the receivers to try.
AccessColIndex(receivers) ==
    \E r \in receivers \cap Held :
        LET ci == col_index(Deref(r))
        IN Call("col_index", r, <<>>, ReturnValue(ci.self, "value", ci.value))

Regroup ==
    \E r \in {"records"} : \E group_by \in GroupByArgs(Deref(r).wrapper) :
        Call("regroup", r, [group_by |-> group_by], regroup(Deref(r), group_by))

FilterByMask ==
    \E r \in {"records"} : \E mask \in Masks(Deref(r)),
                            group_by \in GroupByArgs(Deref(r).wrapper) :
        Call("filter_by_mask", r, [mask |-> mask, group_by |-> group_by],
             filter_by_mask(Deref(r), mask, group_by))

Map ==
    \E r \in {"records"} : \E kernel \in Kernels, idx_arr \in IdxArrs(Deref(r)),
                            value_map \in ValueMaps,
                            group_by \in GroupByArgs(Deref(r).wrapper) :
        Call("map", r, [kernel |-> kernel, arg |-> 2, idx_arr |-> idx_arr,
                        value_map |-> value_map, group_by |-> group_by],
             map(Deref(r), kernel, 2, idx_arr, value_map, group_by))

MapField ==
    \E r \in {"records"} : \E field \in {"some_field", "idx"}, idx_arr \in IdxArrs(Deref(r)),
                            value_map \in ValueMaps,
                            group_by \in GroupByArgs(Deref(r).wrapper) :
        Call("map_field", r, [field |-> field, idx_arr |-> idx_arr,
                              value_map |-> value_map, group_by |-> group_by],
             map_field(Deref(r), field, idx_arr, value_map, group_by))

MapArray ==
    \E r \in {"records"} : \E a \in Arrays(Deref(r)), idx_arr \in IdxArrs(Deref(r)),
                            value_map \in ValueMaps,
                            group_by \in GroupByArgs(Deref(r).wrapper) :
        Call("map_array", r, [a |-> a, idx_arr |-> idx_arr,
                              value_map |-> value_map, group_by |-> group_by],
             map_array(Deref(r), a, idx_arr, value_map, group_by))

Count ==
    \E r \in {"records"} : \E group_by \in GroupByArgs(Deref(r).wrapper) :
        Call("count", r, [group_by |-> group_by], count(Deref(r), group_by))

GetItem(receivers) ==
    \E r \in receivers \cap Held : \E L \in Selections(Deref(r)) :
        Call("getitem", r, [labels |-> L], records_indexing_func(Deref(r), L))

\* Every call on the instance under study, on the docstring's tables.
Next ==
    \/ AccessColIndex({"records"})
    \/ Regroup
    \/ FilterByMask
    \/ Map
    \/ MapField
    \/ MapArray
    \/ Count
    \/ GetItem({"records"})

Spec == Init /\ [][Next]_vars

\* The calls that build an instance, and the column index and selection of
\* the instance built.
NextDerived ==
    \/ AccessColIndex({"records", "result"})
    \/ Regroup
    \/ FilterByMask
    \/ GetItem({"records", "result"})

SpecDerived == Init /\ [][NextDerived]_vars

\* The column index of every row array.
NextIndex == AccessColIndex({"records"})
SpecIndex == InitAny /\ [][NextIndex]_vars

\* Filtering of every row array.
NextFilter == FilterByMask
SpecFilter == InitAny /\ [][NextFilter]_vars

\* The three projections of every row array.
NextMap == Map \/ MapField \/ MapArray
SpecMap == InitAny /\ [][NextMap]_vars

\* Column and group selection on every row array, and again on the selection.
NextSelect == GetItem({"records", "result"})
SpecSelect == InitAny /\ [][NextSelect]_vars

\* -------------------------------------------------------------- properties
RowsOf(obj) == obj.records_arr.data
Positions(obj) == 0..(Len(RowsOf(obj)) - 1)
ColIds(obj) == 0..(Len(obj.wrapper.columns) - 1)

\* The index a row array calls for: per column id, the positions of its rows.
ExactIndex(obj) ==
    [c \in ColIds(obj) |-> {i \in Positions(obj) : RowsOf(obj)[i + 1].col = c}]

\* A group_by argument that raises nothing: none, the current one, or one
\* label per column.
GroupingOk(wrapper, group_by) ==
    \/ group_by = None
    \/ group_by = wrapper.group_by
    \/ Len(The(group_by)) = Len(wrapper.columns)

IdxArrOk(obj, idx_arr) == idx_arr = None \/ Len(The(idx_arr)) = Len(RowsOf(obj))

\* The position of the k-th accepted row of a mask.
KthTrue(mask, k) ==
    CHOOSE i \in DOMAIN mask : mask[i] /\ Cardinality({j \in 1..i : mask[j]}) = k

\* The row of old that a row of a derived array came from (some_field is
\* distinct on every row of the instance under study).
Src(old, row) == CHOOSE i \in DOMAIN old : old[i].some_field = row.some_field

\* Rows out of column order: a row of a column after a row of a later column.
Scattered(rows) == \E i, j \in DOMAIN rows : i < j /\ rows[i].col > rows[j].col

\* C1: the column index gives, for every column id of the wrapper, exactly the
\* positions of the rows with that col, whatever the row order; the sets are
\* pairwise disjoint and cover all rows.
C1_ColIndexExact ==
    ret.op = "col_index" =>
        LET self == The(ret.self)
        IN /\ ret.kind = "value"
           /\ DOMAIN ret.value = ColIds(self)
           /\ \A c \in ColIds(self) :
                ret.value[c] = {i \in Positions(self) : RowsOf(self)[i + 1].col = c}
           /\ \A c, d \in ColIds(self) : c # d => ret.value[c] \cap ret.value[d] = {}
           /\ UNION {ret.value[c] : c \in ColIds(self)} = Positions(self)

\* An index taken of scattered rows: a column whose rows are the first and the
\* third, with a row of an earlier column between them.
C1_Witness ==
    /\ ret.op = "col_index"
    /\ Len(RowsOf(The(ret.self))) >= 3
    /\ Scattered(RowsOf(The(ret.self)))
    /\ \E c \in DOMAIN ret.value : {0, 2} \subseteq ret.value[c] /\ 1 \notin ret.value[c]

\* The column positions a selection of the labels L picks.
SelectedCols(wrapper, L) ==
    {p \in 0..(Len(wrapper.columns) - 1) :
        IF wrapper.group_by = None THEN wrapper.columns[p + 1] \in L
        ELSE The(wrapper.group_by)[p + 1] \in L}

\* C2: a selection returns a new instance holding exactly the rows whose col
\* is selected, each with col replaced by the position of its column among the
\* selected ones and nothing else changed, in ascending new col and, within a
\* column, in their original order.
C2_SelectionRows ==
    ret.op = "getitem" =>
        LET self == The(ret.self)
            old == RowsOf(self)
            sel == SelectedCols(self.wrapper, ret.args.labels)
            newId(c) == Cardinality({q \in sel : q < c})
        IN /\ ret.kind = "new"
           /\ result # None
           /\ LET new == RowsOf(The(result))
              IN /\ The(result).records_arr.dtype = self.records_arr.dtype
                 /\ Len(new) = Cardinality({i \in DOMAIN old : old[i].col \in sel})
                 /\ {new[k].some_field : k \in DOMAIN new}
                        = {old[i].some_field : i \in {j \in DOMAIN old : old[j].col \in sel}}
                 /\ \A k \in DOMAIN new :
                        new[k] = [old[Src(old, new[k])] EXCEPT
                                      !.col = newId(old[Src(old, new[k])].col)]
                 /\ \A k, l \in DOMAIN new :
                        k < l => \/ new[k].col < new[l].col
                                 \/ /\ new[k].col = new[l].col
                                    /\ Src(old, new[k]) < Src(old, new[l])

\* A selection that drops a row, renumbers a column and has two rows of one
\* column to keep in order.
C2_Witness ==
    /\ ret.op = "getitem"
    /\ ret.kind = "new"
    /\ LET old == RowsOf(The(ret.self))
           new == RowsOf(The(result))
       IN /\ Len(new) >= 2
          /\ Len(new) < Len(old)
          /\ new[1].col = new[2].col
          /\ old[Src(old, new[1])].col # new[1].col

\* C3: with a mask of the row count's length (and a group_by that raises
\* nothing) filter_by_mask returns a new instance whose rows are the rows the
\* mask accepts, in their order; all of them under an all-true mask, none
\* under an all-false one, and neither case is an error.
C3_FilterSubsequence ==
    (/\ ret.op = "filter_by_mask"
     /\ Len(ret.args.mask) = Len(RowsOf(The(ret.self)))
     /\ GroupingOk(The(ret.self).wrapper, ret.args.group_by)) =>
        LET old == RowsOf(The(ret.self))
            mask == ret.args.mask
            accepted == {i \in DOMAIN mask : mask[i]}
        IN /\ ret.kind = "new"
           /\ result # None
           /\ LET new == RowsOf(The(result))
              IN /\ The(result).records_arr.dtype = The(ret.self).records_arr.dtype
                 /\ Len(new) = Cardinality(accepted)
                 /\ \A k \in DOMAIN new : new[k] = old[KthTrue(mask, k)]
                 /\ (accepted = DOMAIN mask) => new = old
                 /\ (accepted = {}) => new = <<>>

\* A filter that drops the middle row of three.
C3_Witness ==
    /\ ret.op = "filter_by_mask"
    /\ ret.kind = "new"
    /\ ret.args.mask = <<TRUE, FALSE, TRUE>>
    /\ Len(RowsOf(The(result))) = 2

\* The index field of an instance: the one given at construction, else idx if
\* the dtype has it.
TimeField(obj) ==
    IF obj.config_idx_field # None THEN obj.config_idx_field
    ELSE IF "idx" \in obj.records_arr.dtype THEN Some("idx")
    ELSE None

\* C4: map, when nothing raises (the kernel on no row, the group_by, an
\* idx_arr of another length), returns a mapped array whose col_arr is the col
\* field, whose values are the kernel's on each row, and whose idx_arr is the
\* caller's if given, else the index field's values, else absent; all of the
\* row count's length and in row order.
C4_MapProjection ==
    ret.op = "map" =>
        LET self == The(ret.self)
            rows == RowsOf(self)
            a == ret.args
            kernel_ok == \A i \in DOMAIN rows : ~KernelRaises(a.kernel, rows[i])
        IN /\ (kernel_ok /\ GroupingOk(self.wrapper, a.group_by) /\ IdxArrOk(self, a.idx_arr))
                => ret.kind = "mapped"
           /\ ret.kind = "mapped" =>
                LET m == ret.value
                IN /\ kernel_ok
                   /\ Len(m.mapped_arr) = Len(rows)
                   /\ Len(m.col_arr) = Len(rows)
                   /\ \A i \in DOMAIN rows :
                        /\ m.col_arr[i] = rows[i].col
                        /\ m.mapped_arr[i] = KernelValue(a.kernel, rows[i], a.arg)
                   /\ m.idx_arr =
                        (IF a.idx_arr # None THEN a.idx_arr
                         ELSE IF TimeField(self) = None THEN None
                         ELSE Some([i \in DOMAIN rows |-> rows[i][The(TimeField(self))]]))
                   /\ m.idx_arr # None => Len(The(m.idx_arr)) = Len(rows)
           /\ records = self

\* A map of scattered rows with the caller's idx_arr on an instance that has
\* an index field of its own.
C4_Witness ==
    /\ ret.op = "map"
    /\ ret.kind = "mapped"
    /\ Len(RowsOf(The(ret.self))) >= 2
    /\ Scattered(RowsOf(The(ret.self)))
    /\ ret.args.idx_arr # None
    /\ The(ret.self).idx_field # None
    /\ ret.value.idx_arr = ret.args.idx_arr

\* C5: no call changes the row array, the wrapper or the index field of the
\* instance it is made on, whether it returns or raises; and a filter, a
\* selection and a regroup under a changed grouping, when they return, return
\* another instance.
C5_ReceiverUnchanged ==
    [][/\ records'.records_arr = records.records_arr
       /\ records'.wrapper = records.wrapper
       /\ records'.idx_field = records.idx_field
       /\ (ret'.op \in {"filter_by_mask", "getitem"} /\ ret'.kind # "raise")
            => (ret'.kind = "new" /\ result' # None)
       /\ (/\ ret'.op = "regroup"
           /\ ret'.kind # "raise"
           /\ ret'.args.group_by # None
           /\ ret'.args.group_by # records.wrapper.group_by)
            => (ret'.kind = "new" /\ result' # None)]_vars

\* A filter that dropped rows, on an instance whose index was cached before:
\* the instance still has all its rows and its index.
C5_Witness ==
    /\ ret.op = "filter_by_mask"
    /\ ret.kind = "new"
    /\ The(ret.self).col_index # None
    /\ Len(RowsOf(The(result))) < Len(RowsOf(records))
    /\ records.col_index = Some(ExactIndex(records))

\* C6: regroup returns the instance itself when the grouping is unchanged; a
\* new instance with the same row array and index field and the wrapper under
\* the new grouping when it is changed and valid; and raises GroupingError,
\* returning nothing, when it is changed and invalid.  The receiver's row
\* array is the same after the call in all three cases.
C6_Regroup ==
    ret.op = "regroup" =>
        LET self == The(ret.self)
            g == ret.args.group_by
            changed == g # None /\ g # self.wrapper.group_by
            valid == Len(The(g)) = Len(self.wrapper.columns)
        IN /\ records.records_arr = self.records_arr
           /\ ~changed => (ret.kind = "self" /\ result = None /\ records = self)
           /\ (changed /\ valid) =>
                /\ ret.kind = "new"
                /\ result # None
                /\ The(result).records_arr = self.records_arr
                /\ The(result).idx_field = self.idx_field
                /\ The(result).wrapper = [columns |-> self.wrapper.columns, group_by |-> g]
           /\ (changed /\ ~valid) =>
                /\ ret.kind = "raise"
                /\ ret.value = "GroupingError"
                /\ result = None

\* A regroup, to the docstring's grouping, of an instance with rows and an
\* index field given at construction.
C6_Witness ==
    /\ ret.op = "regroup"
    /\ ret.kind = "new"
    /\ Len(RowsOf(The(ret.self))) >= 2
    /\ The(ret.self).idx_field = Some("some_field")
    /\ The(result).wrapper.group_by # None

\* C7: map_array raises ShapeError, returning nothing, for an array of any
\* length other than the row count (whatever the other arguments), and
\* otherwise, when the other arguments raise nothing, returns a mapped array
\* whose values are the array.
C7_MapArrayShape ==
    ret.op = "map_array" =>
        LET self == The(ret.self)
            a == ret.args
        IN /\ Len(a.a) # Len(RowsOf(self)) =>
                (ret.kind = "raise" /\ ret.value = "ShapeError")
           /\ (/\ Len(a.a) = Len(RowsOf(self))
               /\ GroupingOk(self.wrapper, a.group_by)
               /\ IdxArrOk(self, a.idx_arr)) =>
                (ret.kind = "mapped" /\ ret.value.mapped_arr = a.a)
           /\ result = None

\* An empty array against rows, with a group_by that would raise too.
C7_Witness ==
    /\ ret.op = "map_array"
    /\ ret.kind = "raise"
    /\ ret.args.a = <<>>
    /\ Len(RowsOf(The(ret.self))) >= 2
    /\ ~GroupingOk(The(ret.self).wrapper, ret.args.group_by)

\* C8: filter_by_mask with a mask of any length other than the row count
\* raises and returns no instance, and the receiver is as it was; the error
\* is ShapeError unless the group_by, applied first, has raised GroupingError.
C8_FilterMaskShape ==
    (/\ ret.op = "filter_by_mask"
     /\ Len(ret.args.mask) # Len(RowsOf(The(ret.self)))) =>
        /\ ret.kind = "raise"
        /\ result = None
        /\ records = The(ret.self)
        /\ ret.value = IF GroupingOk(The(ret.self).wrapper, ret.args.group_by)
                       THEN "ShapeError" ELSE "GroupingError"

\* A mask one short of the rows.
C8_Witness ==
    /\ ret.op = "filter_by_mask"
    /\ ret.kind = "raise"
    /\ ret.value = "ShapeError"
    /\ Len(ret.args.mask) >= 1
    /\ Len(ret.args.mask) < Len(RowsOf(The(ret.self)))

\* The cache of an instance: empty and never built, or built once and holding
\* the index of the instance's own rows.
CacheOk(obj) ==
    /\ obj.index_builds <= 1
    /\ obj.col_index = None <=> obj.index_builds = 0
    /\ obj.col_index # None => The(obj.col_index) = ExactIndex(obj)

C10_SelectionIdempotent ==
    (/\ ret.op = "getitem"
     /\ ret.receiver = "result"
     /\ ret.made_by = Some(ret.args.labels)) =>
        /\ ret.kind = "new"
        /\ result # None
        /\ The(result).records_arr = The(ret.self).records_arr
        /\ The(result).wrapper = The(ret.self).wrapper

\* A repeated selection of fewer columns than the instance under study has,
\* with two rows or more, one of them renumbered by the first selection.
C10_Witness ==
    /\ ret.op = "getitem"
    /\ ret.receiver = "result"
    /\ ret.made_by = Some(ret.args.labels)
    /\ Len(The(result).wrapper.columns) < Len(records.wrapper.columns)
    /\ Len(RowsOf(The(result))) >= 2
    /\ \E k \in DOMAIN RowsOf(The(result)) :
          RowsOf(records)[Src(RowsOf(records), RowsOf(The(result))[k])].col
              # RowsOf(The(result))[k].col

====
